---- MODULE Spec2Model ----
(***************************************************************************)
(* Model of SphereSurface (src/src/sphere_surface.py, the self-contained   *)
(* class) with the radius guard and get_normal of the quadric-based class  *)
(* (src/tracer/sphere_surface.py).                                         *)
(*                                                                         *)
(* Arithmetic is exact: a scalar is a fraction [num, den] with den >= 0,   *)
(* where den = 0 encodes the IEEE results of a division by zero            *)
(* (1/0 = +infinity, 0/0 = NaN); a point is [num |-> <<x,y,z>>, den].      *)
(* Rays are drawn only where the discriminant is negative or a perfect     *)
(* square, so that N.sqrt is exact.                                        *)
(***************************************************************************)
EXTENDS Integers, Sequences, FiniteSets, TLC

VARIABLES
  rad,             \* self._rad
  center,          \* self._center
  boundary,        \* self._boundary
  attrs,           \* which of _vertices, _current_bundle, _norm exist
  vertices,        \* self._vertices, a sequence of columns
  norm,            \* self._norm, a sequence of columns
  current_bundle,  \* self._current_bundle, a sequence of rays
  call,            \* the last call: method, argument, exception raised
  ret,             \* the value the last call returned
  lastRegistered   \* history: bundle and t array of the last completed
                   \* register_incoming of this surface

vars == <<rad, center, boundary, attrs, vertices, norm, current_bundle,
          call, ret, lastRegistered>>

object == <<rad, center, boundary, attrs, vertices, norm, current_bundle>>

\* ------------------------------------------------------------------ bounds
MaxRays == 2
MaxRad == 2
MaxZ == 5

\* ------------------------------------------------------------- input sets
Ray(v, d) == [v |-> v, d |-> d]

\* rays of the call sequences: two that hit the unit sphere and one that
\* points away from it
Rays ==
  { Ray(<<0, 0, 5>>, <<0, 0, -1>>),
    Ray(<<0, 0, 0>>, <<1, 0, 0>>),
    Ray(<<0, 0, 5>>, <<0, 0, 1>>) }

Bundles == UNION { [1..n -> Rays] : n \in 0..MaxRays }

Centers == { <<0, 0, 0>> }

\* radii passed to the constructor and to set_radius
Radii == {0 - 1, 0, 1, 2}

NoBoundary == [kind |-> "None"]

BoundarySphere(loc, r) == [kind |-> "sphere", loc |-> loc, radius |-> r]

\* the default boundary (None) and one that holds the whole sphere
Boundaries == { NoBoundary, BoundarySphere(<<0, 0, 0>>, 10) }

\* rays, radii, centers and boundaries of the single-ray geometry runs
GeomRays ==
  { Ray(<<x, 0, z>>, <<dx, 0, dz>>) :
      x \in 0..2, z \in 0..MaxZ, dx \in {0, 1}, dz \in (0 - 2)..1 }

GeomRadii == 1..MaxRad

GeomCenters == { <<0, 0, 0>>, <<0, 0, 1>> }

\* one boundary holding the whole sphere, one holding only its lower part
GeomBoundaries == { BoundarySphere(<<0, 0, 0>>, 10),
                    BoundarySphere(<<0, 0, -2>>, 2) }

Masks(n) == [1..n -> BOOLEAN]

AllMasks == UNION { Masks(n) : n \in 0..MaxRays }

\* contents the two N.empty([3,1]) buffers of a miss may hold
Garbage ==
  { [vertex |-> [num |-> <<7, 7, 7>>, den |-> 1],
     norm |-> [num |-> <<7, 7, 7>>, den |-> 1]],
    [vertex |-> [num |-> <<-7, -7, -7>>, den |-> 1],
     norm |-> [num |-> <<0, 0, 0>>, den |-> 1]] }

\* --------------------------------------------------------- exact numbers
Inf == [num |-> 1, den |-> 0]

Finite(t) == t.den > 0

IsSquare(x) == \E s \in 0..x : s * s = x

sqrt(x) == CHOOSE s \in 0..x : s * s = x

vdot(a, b) == a[1] * b[1] + a[2] * b[2] + a[3] * b[3]

vsub(a, b) == <<a[1] - b[1], a[2] - b[2], a[3] - b[3]>>

scale(k, a) == <<k * a[1], k * a[2], k * a[3]>>

\* ------------------------------------------------------------ accessors
get_radius == rad

get_center == center

\* variant: the guard lets a zero radius through
RadiusRejected_zero(r) == r < 0

RadiusRejected(r) == r <= 0

\* -------------------------------------------------- quadratic coefficients
get_A(d) == vdot(d, d)

get_B(d, v, c) == 2 * vdot(d, vsub(v, c))

get_C(v, c, r) == vdot(vsub(v, c), vsub(v, c)) - r * r

get_delta(A, B, C) == B * B - 4 * A * C

\* hits = (-B + [-1, 1]*sqrt(delta)) / (2*A); index 1 is the '-' root
get_hits(A, B, delta) ==
  << [num |-> (0 - B) - sqrt(delta), den |-> 2 * A],
     [num |-> (0 - B) + sqrt(delta), den |-> 2 * A] >>

\* hits > 0, elementwise: the denominator 2A is never negative, and NaN
\* (0/0, the two roots of a ray with A = 0) compares false with everything
gt_zero(h) == h.num > 0

where_positive(hits) == SelectSeq(<<1, 2>>, LAMBDA i : gt_zero(hits[i]))

\* variant: N.argmax in place of N.argmin
argmin_max(hits) == IF hits[2].num > hits[1].num THEN 2 ELSE 1

\* N.argmin: index of the least element, the first one on a tie
argmin(hits) == IF hits[2].num < hits[1].num THEN 2 ELSE 1

\* coords = vertex + d*hit
get_coords(vertex, d, h) ==
  [num |-> <<vertex[1] * h.den + d[1] * h.num,
             vertex[2] * h.den + d[2] * h.num,
             vertex[3] * h.den + d[3] * h.num>>,
   den |-> h.den]

\* N.vdot(c - coords[param,:], d), numerator over the denominator of coords
get_dot(c, p, d) == vdot(vsub(scale(p.den, c), p.num), d)

\* line 103 of the self-contained class: no normalisation
inline_normal(dot, hit, c) ==
  IF dot <= 0 THEN [num |-> vsub(hit.num, scale(hit.den, c)), den |-> hit.den]
              ELSE [num |-> vsub(scale(hit.den, c), hit.num), den |-> hit.den]

\* get_normal of the quadric-based class: the same sign rule, then
\* normal/N.linalg.norm(normal); the self-contained class does not call it
get_normal(dot, hit, c) ==
  LET n == inline_normal(dot, hit, c)
  IN [num |-> n.num, den |-> sqrt(vdot(n.num, n.num))]

in_bounds(bnd, p) ==
  LET off == vsub(p.num, scale(p.den, bnd.loc))
  IN vdot(off, off) <= bnd.radius * bnd.radius * p.den * p.den

Placeholder(g) ==
  [param |-> Inf, vertex |-> g.vertex, norm |-> g.norm, raised |-> "none"]

\* variant: the result of in_bounds is ignored
BoundaryBranch_ignored(selector, hit, miss) == hit

\* if selector[0]: append the hit, else: append the placeholders
BoundaryBranch(selector, hit, miss) == IF selector THEN hit ELSE miss

\* one iteration of the loop over the rays
RayResult(vertex, d, c, r, bnd, g) ==
  LET A == get_A(d)
      B == get_B(d, vertex, c)
      C == get_C(vertex, c, r)
      delta == get_delta(A, B, C)
  IN IF delta < 0 THEN Placeholder(g)
     ELSE
       LET hits == get_hits(A, B, delta)
           is_positive == where_positive(hits)
       IN IF Len(is_positive) = 0 THEN Placeholder(g)
          ELSE
            LET param == IF Len(is_positive) = 2 THEN argmin(hits)
                                                  ELSE is_positive[1]
                verts == get_coords(vertex, d, hits[param])
                dot == get_dot(c, verts, d)
                normal == inline_normal(dot, verts, c)
            IN IF bnd.kind = "None"
                 THEN [param |-> Inf, vertex |-> g.vertex, norm |-> g.norm,
                       raised |-> "AttributeError"]
                 ELSE BoundaryBranch(in_bounds(bnd, verts),
                        [param |-> hits[param], vertex |-> verts,
                         norm |-> normal, raised |-> "none"],
                        Placeholder(g))

\* the discriminant of the ray is negative or a perfect square
ExactRay(ray, c, r) ==
  LET delta == get_delta(get_A(ray.d), get_B(ray.d, ray.v, c),
                         get_C(ray.v, c, r))
  IN delta < 0 \/ IsSquare(delta)

ExactBundle(b, c, r) == \A i \in 1..Len(b) : ExactRay(b[i], c, r)

\* ----------------------------------------------------------- return values
None == [kind |-> "None"]

\* variant: __init__ creates the three cache attributes as empty arrays
InitAttrs_cached == {"_vertices", "_current_bundle", "_norm"}

\* the cache attributes __init__ leaves on the instance: none
InitAttrs == {}

\* variant: the three lists live on the instance and are never emptied
NewLists_kept ==
  IF lastRegistered.kind = "registered"
    THEN [params |-> lastRegistered.params, vertices |-> vertices,
          norm |-> norm]
    ELSE [params |-> <<>>, vertices |-> <<>>, norm |-> <<>>]

\* params = [], vertices = [], norm = []
NewLists == [params |-> <<>>, vertices |-> <<>>, norm |-> <<>>]

\* ------------------------------------------------------------------ Init
Init ==
  /\ rad \in {r \in Radii : ~RadiusRejected(r)}
  /\ center \in Centers
  /\ boundary \in Boundaries
  /\ attrs = InitAttrs
  /\ vertices = <<>>
  /\ norm = <<>>
  /\ current_bundle = <<>>
  /\ call = [op |-> "__init__", radius |-> rad, err |-> "none"]
  /\ ret = None
  /\ lastRegistered = None

\* ------------------------------------------------------------ operations
\* s = SphereSurface(center=c, radius=r, boundary=bnd): when set_radius raises
\* no instance is bound and the surface at hand stays as it was
Construct(c, r, bnd) ==
  /\ call' = [op |-> "__init__", radius |-> r,
              err |-> IF RadiusRejected(r) THEN "NameError" ELSE "none"]
  /\ ret' = None
  /\ IF RadiusRejected(r)
       THEN UNCHANGED <<object, lastRegistered>>
       ELSE /\ rad' = r
            /\ center' = c
            /\ boundary' = bnd
            /\ attrs' = InitAttrs
            /\ vertices' = <<>>
            /\ norm' = <<>>
            /\ current_bundle' = <<>>
            /\ lastRegistered' = None

\* raise ValuError(...) raises NameError: the name ValuError is undefined
set_radius(r) ==
  /\ call' = [op |-> "set_radius", radius |-> r,
              err |-> IF RadiusRejected(r) THEN "NameError" ELSE "none"]
  /\ ret' = None
  /\ rad' = IF RadiusRejected(r) THEN rad ELSE r
  /\ UNCHANGED <<center, boundary, attrs, vertices, norm, current_bundle,
                 lastRegistered>>

register_incoming(ray_bundle, g) ==
  \E res \in { [i \in 1..Len(ray_bundle) |->
                  RayResult(ray_bundle[i].v, ray_bundle[i].d, get_center,
                            get_radius, boundary, g[i])] } :
    LET n == Len(ray_bundle)
        raising == {i \in 1..n : res[i].raised # "none"}
        start == NewLists
        params == start.params \o [i \in 1..n |-> res[i].param]
        verts == start.vertices \o [i \in 1..n |-> res[i].vertex]
        norms == start.norm \o [i \in 1..n |-> res[i].norm]
        \* None has no in_bounds; N.hstack of an empty list raises
        err == IF raising # {} THEN "AttributeError"
               ELSE IF Len(verts) = 0 THEN "ValueError" ELSE "none"
    IN /\ call' = [op |-> "register_incoming", bundle |-> ray_bundle,
                   err |-> err,
                   again |-> /\ call.op = "register_incoming"
                             /\ call.err = "none"
                             /\ call.bundle = ray_bundle]
       /\ IF err # "none"
            THEN /\ ret' = None
                 /\ UNCHANGED <<object, lastRegistered>>
            ELSE /\ vertices' = verts
                 /\ current_bundle' = ray_bundle
                 /\ norm' = norms
                 /\ attrs' = attrs \cup {"_vertices", "_current_bundle", "_norm"}
                 /\ ret' = [kind |-> "params", val |-> params]
                 /\ lastRegistered' = [kind |-> "registered",
                                        bundle |-> ray_bundle,
                                        params |-> params]
                 /\ UNCHANGED <<rad, center, boundary>>

\* a[:, selector] for a boolean selector
take(a, selector) ==
  LET idx == SelectSeq([i \in 1..Len(a) |-> i], LAMBDA i : selector[i])
  IN [j \in 1..Len(idx) |-> a[idx[j]]]

\* variant: the selected columns are stored once
hstack2_once(a, b) == a

\* N.hstack((a, b))
hstack2(a, b) == a \o b

\* Optics(...).fresnel(...): two rays for every selected ray
fresnel(bundle, normals, selector) ==
  [num_rays |-> 2 * Cardinality({i \in 1..Len(selector) : selector[i]}),
   vertices |-> <<>>]

\* reading a cache attribute that was never assigned raises AttributeError
get_outgoing(selector) ==
  LET missing == {"_current_bundle", "_norm", "_vertices"} \ attrs
  IN /\ call' = [op |-> "get_outgoing", selector |-> selector,
                 err |-> IF missing # {} THEN "AttributeError" ELSE "none"]
     /\ IF missing # {}
          THEN ret' = None
          ELSE LET outg == fresnel(current_bundle, norm, selector)
               IN ret' = [kind |-> "bundle",
                          val |-> [outg EXCEPT !.vertices =
                                     hstack2(take(vertices, selector),
                                             take(vertices, selector))]]
     /\ UNCHANGED <<object, lastRegistered>>

\* ------------------------------------------------------------------ Next
DoConstruct ==
  \E c \in Centers, r \in Radii, bnd \in Boundaries : Construct(c, r, bnd)

DoSetRadius == \E r \in Radii : set_radius(r)

\* the bundles are those whose square roots are exact; the buffers N.empty
\* hands out within one call are taken to hold the same content
DoRegister ==
  \E b \in Bundles :
    /\ ExactBundle(b, center, rad)
    /\ \E x \in Garbage : register_incoming(b, [i \in 1..Len(b) |-> x])

\* on a registered surface the selector has one entry per registered ray
DoGetOutgoing ==
  \E selector \in (IF "_current_bundle" \in attrs
                     THEN Masks(Len(current_bundle)) ELSE AllMasks) :
    get_outgoing(selector)

Next == DoConstruct \/ DoSetRadius \/ DoRegister \/ DoGetOutgoing

Spec == Init /\ [][Next]_vars

\* ---------------------------------------- single-ray geometry specification
GeomInit ==
  /\ rad \in GeomRadii
  /\ center \in GeomCenters
  /\ boundary \in GeomBoundaries
  /\ attrs = InitAttrs
  /\ vertices = <<>>
  /\ norm = <<>>
  /\ current_bundle = <<>>
  /\ call = [op |-> "__init__", radius |-> rad, err |-> "none"]
  /\ ret = None
  /\ lastRegistered = None

GeomNext ==
  \E ray \in GeomRays :
    /\ ExactRay(ray, center, rad)
    /\ \E x \in Garbage : register_incoming(<<ray>>, <<x>>)

GeomSpec == GeomInit /\ [][GeomNext]_vars

\* =================================================================== claims
Registered == call.op = "register_incoming" /\ call.err = "none"

FracEq(a, b) == a.num * b.den = b.num * a.den

FracLE(a, b) == a.num * b.den <= b.num * a.den

RayA(ray) == get_A(ray.d)

RayDelta(ray) ==
  get_delta(get_A(ray.d), get_B(ray.d, ray.v, center), get_C(ray.v, center, rad))

\* the real roots (-B -+ sqrt(delta))/(2A) of a ray with A > 0, as a set
Roots(ray) ==
  IF RayDelta(ray) < 0 THEN {}
  ELSE LET B == get_B(ray.d, ray.v, center)
           s == sqrt(RayDelta(ray))
       IN { [num |-> (0 - B) - s, den |-> 2 * RayA(ray)],
            [num |-> (0 - B) + s, den |-> 2 * RayA(ray)] }

PosRoots(ray) == { h \in Roots(ray) : h.num > 0 }

Nearest(ray) ==
  CHOOSE h \in PosRoots(ray) : \A k \in PosRoots(ray) : FracLE(h, k)

PointAt(ray, t) == get_coords(ray.v, ray.d, t)

Accepts(p) == boundary.kind = "sphere" /\ in_bounds(boundary, p)

Rejects(p) == boundary.kind = "sphere" /\ ~in_bounds(boundary, p)

\* C1: for a ray with a non-zero direction, the returned t is +infinity when
\* the discriminant is negative or no root is > 0; otherwise, when the
\* boundary accepts the selected point, it is the only root > 0 or, when both
\* roots are > 0, the smaller one.
C1_RootSelection ==
  Registered =>
    \A i \in 1..Len(current_bundle) :
      LET ray == current_bundle[i]
          t == ret.val[i]
      IN RayA(ray) # 0 =>
           /\ PosRoots(ray) = {} => t = Inf
           /\ (PosRoots(ray) # {} /\ Accepts(PointAt(ray, Nearest(ray)))) =>
                /\ Finite(t)
                /\ FracEq(t, Nearest(ray))
                /\ \A k \in PosRoots(ray) : FracLE(t, k)

\* a ray with two different roots > 0 was registered and accepted
C1_Witness ==
  /\ Registered
  /\ \E i \in 1..Len(current_bundle) :
       LET ray == current_bundle[i]
       IN /\ RayA(ray) # 0
          /\ Cardinality(PosRoots(ray)) = 2
          /\ \E h, k \in PosRoots(ray) : ~FracEq(h, k)
          /\ Accepts(PointAt(ray, Nearest(ray)))
          /\ Finite(ret.val[i])

Outside(ray) ==
  vdot(vsub(ray.v, center), vsub(ray.v, center)) > rad * rad

\* C2: for a ray from outside the sphere that is recorded as a hit, the
\* cached normal n has n . (origin - hitpoint) > 0; the ray from (0,0,5)
\* with direction (0,0,-1) on the unit sphere at the origin gives t = 4,
\* hit point (0,0,1), normal (0,0,1).
C2_NormalTowardsOrigin ==
  Registered =>
    \A i \in 1..Len(current_bundle) :
      LET ray == current_bundle[i]
          p == vertices[i]
          n == norm[i]
      IN /\ (Finite(ret.val[i]) /\ Outside(ray)) =>
              vdot(n.num, vsub(scale(p.den, ray.v), p.num)) > 0
         /\ (/\ Finite(ret.val[i])
             /\ rad = 1 /\ center = <<0, 0, 0>>
             /\ ray = Ray(<<0, 0, 5>>, <<0, 0, -1>>)) =>
              /\ FracEq(ret.val[i], [num |-> 4, den |-> 1])
              /\ p.num = scale(p.den, <<0, 0, 1>>)
              /\ n.num = scale(n.den, <<0, 0, 1>>)

\* C3: when the boundary rejects the point of the selected root, the
\* returned t is +infinity and the cached record is a placeholder, whatever
\* the other root is.
C3_BoundaryFiltering ==
  Registered =>
    \A i \in 1..Len(current_bundle) :
      LET ray == current_bundle[i]
      IN (/\ RayA(ray) # 0
          /\ PosRoots(ray) # {}
          /\ Rejects(PointAt(ray, Nearest(ray)))) =>
           /\ ret.val[i] = Inf
           /\ [vertex |-> vertices[i], norm |-> norm[i]] \in Garbage

\* the selected point was rejected although the other root is > 0 and its
\* point is in bounds
C3_Witness ==
  /\ Registered
  /\ \E i \in 1..Len(current_bundle) :
       LET ray == current_bundle[i]
       IN /\ RayA(ray) # 0
          /\ PosRoots(ray) # {}
          /\ Rejects(PointAt(ray, Nearest(ray)))
          /\ \E k \in PosRoots(ray) :
               /\ ~FracEq(k, Nearest(ray))
               /\ Accepts(PointAt(ray, k))
          /\ ret.val[i] = Inf

\* C8: the normal cached for a ray recorded as a hit has length 1.
C8_UnitNormals ==
  Registered =>
    \A i \in 1..Len(current_bundle) :
      Finite(ret.val[i]) =>
        vdot(norm[i].num, norm[i].num) = norm[i].den * norm[i].den

\* C9: register_incoming of a bundle holding a ray with a zero-length
\* direction fails with an error and returns no t array.
C9_ZeroDirectionFails ==
  (/\ call.op = "register_incoming"
   /\ \E i \in 1..Len(call.bundle) : call.bundle[i].d = <<0, 0, 0>>) =>
    /\ call.err # "none"
    /\ ret.kind = "None"

Cache == <<attrs, vertices, norm, current_bundle>>

CacheAttrs == {"_vertices", "_current_bundle", "_norm"}

OutgoingOk == call.op = "get_outgoing" /\ call.err = "none"

Selected(selector) == {i \in 1..Len(selector) : selector[i]}

\* the position in the bundle of the j-th selected ray
NthSelected(selector, j) ==
  CHOOSE i \in Selected(selector) :
    Cardinality({m \in Selected(selector) : m <= i}) = j

\* C4: with a mask of the bundle's length whose k true entries are all on
\* rays with a finite t, get_outgoing returns 2k rays and 2k vertex columns;
\* columns 1..k are the cached hit points of the selected rays in bundle
\* order and columns k+1..2k repeat them.
C4_OutgoingVertices ==
  (/\ OutgoingOk
   /\ Len(call.selector) = Len(current_bundle)
   /\ \A i \in Selected(call.selector) : Finite(lastRegistered.params[i])) =>
    LET k == Cardinality(Selected(call.selector))
        out == ret.val
    IN /\ out.num_rays = 2 * k
       /\ Len(out.vertices) = 2 * k
       /\ \A j \in 1..k :
            /\ out.vertices[j] = vertices[NthSelected(call.selector, j)]
            /\ out.vertices[k + j] = out.vertices[j]

\* two rays with different finite hit points were selected
C4_Witness ==
  /\ OutgoingOk
  /\ Cardinality(Selected(call.selector)) = 2
  /\ \A i \in Selected(call.selector) : Finite(lastRegistered.params[i])
  /\ vertices[1] # vertices[2]
  /\ Len(ret.val.vertices) = 4

RepeatedRegister == Registered /\ call.again

\* C5: register_incoming called twice in a row with the same bundle returns
\* the same t values and leaves the same cached hit points and normals for
\* every ray, the placeholders of the missing rays included.
C5_Idempotent ==
  [][RepeatedRegister' =>
       /\ ret' = ret
       /\ vertices' = vertices
       /\ norm' = norm]_vars

\* C5 amended: ... the same t values, the same number of cached columns and
\* the same cached hit point and normal for every ray with a finite t.
C5_IdempotentOnHits ==
  [][RepeatedRegister' =>
       /\ ret' = ret
       /\ Len(vertices') = Len(vertices)
       /\ Len(norm') = Len(norm)
       /\ \A i \in 1..Len(current_bundle) :
            Finite(ret.val[i]) =>
              /\ vertices'[i] = vertices[i]
              /\ norm'[i] = norm[i]]_vars

\* the same bundle, holding a hit and a miss, was registered twice in a row
C5_Witness ==
  /\ RepeatedRegister
  /\ \E i, j \in 1..Len(current_bundle) :
       Finite(ret.val[i]) /\ ~Finite(ret.val[j])

RadiusCall == call.op \in {"__init__", "set_radius"}

\* C6: the stored radius is always > 0; a construction or set_radius with a
\* radius <= 0 fails with an error and leaves the stored radius, and the rest
\* of the surface, as it was.
C6_RadiusPositive ==
  /\ [](/\ rad > 0
        /\ (RadiusCall /\ call.radius <= 0) => call.err # "none"
        /\ (RadiusCall /\ call.radius > 0) =>
             (call.err = "none" /\ rad = call.radius))
  /\ [][(RadiusCall' /\ call'.radius <= 0) => UNCHANGED object]_vars

\* a set_radius with a radius <= 0 has just failed
C6_Witness ==
  /\ call.op = "set_radius"
  /\ call.radius <= 0
  /\ call.err # "none"
  /\ rad > 0

\* C7: get_outgoing on a surface on which no register_incoming has completed
\* fails with an error and returns no bundle; it returns a bundle only after
\* a register_incoming has completed.
C7_RegisterBeforeConsume ==
  call.op = "get_outgoing" =>
    /\ lastRegistered.kind = "None" =>
         (call.err # "none" /\ ret.kind = "None")
    /\ ret.kind = "bundle" => lastRegistered.kind = "registered"

\* get_outgoing was called on a surface without a completed registration
C7_Witness ==
  /\ call.op = "get_outgoing"
  /\ lastRegistered.kind = "None"
  /\ call.err = "AttributeError"
  /\ ret.kind = "None"

\* the three cached fields hold the records of the last completed
\* register_incoming, one column per ray
CacheOfLast ==
  lastRegistered.kind = "registered" =>
    /\ CacheAttrs \subseteq attrs
    /\ current_bundle = lastRegistered.bundle
    /\ Len(vertices) = Len(current_bundle)
    /\ Len(norm) = Len(current_bundle)
    /\ Len(lastRegistered.params) = Len(current_bundle)
    /\ \A i \in 1..Len(current_bundle) :
         LET t == lastRegistered.params[i]
             p == PointAt(current_bundle[i], t)
         IN Finite(t) =>
              /\ vertices[i] = p
              /\ norm[i].den = p.den
              /\ norm[i].num \in {vsub(p.num, scale(p.den, center)),
                                  vsub(scale(p.den, center), p.num)}

\* C10: once a register_incoming has completed, the three cached fields
\* belong to the most recently registered bundle, one column per ray; every
\* register_incoming replaces the three together; get_outgoing changes none
\* of them and takes its vertices from them only.
C10_SingleSlotCache ==
  /\ []CacheOfLast
  /\ [][/\ Registered' =>
             /\ current_bundle' = call'.bundle
             /\ lastRegistered'.bundle = call'.bundle
             /\ ret'.val = lastRegistered'.params
        /\ call'.op = "get_outgoing" => UNCHANGED <<Cache, lastRegistered>>
        /\ OutgoingOk' =>
             \A j \in 1..Len(ret'.val.vertices) :
               \E i \in 1..Len(vertices) : ret'.val.vertices[j] = vertices[i]
       ]_vars

\* get_outgoing has returned vertices of a registered two-ray bundle
C10_Witness ==
  /\ OutgoingOk
  /\ lastRegistered.kind = "registered"
  /\ Len(current_bundle) = 2
  /\ Len(ret.val.vertices) > 0

====
